---- MODULE Spec2Model ----
(***************************************************************************)
(* A model of src/src/run.ts (henrikkv/hackathon-submit): the image        *)
(* generators with their 429 backoff loop, the main pipeline               *)
(* (clone, summarize, text generation, form driving), the directory        *)
(* summarizer, the per-file synopsis and the JSON extraction of            *)
(* createReadme.  Each part has its own specification over the shared      *)
(* variables; the parts that a specification does not exercise stay idle.  *)
(***************************************************************************)
EXTENDS Integers, Sequences, FiniteSets, TLC

VARIABLES
  \* generateImages / generateScreenshots
  fn,          \* which generator is running: "images" | "screenshots" | "none"
  count,       \* the count parameter of generateScreenshots
  attempt,     \* let attempt
  ipc,         \* position: "loop" | "catch" | "returned" | "thrown" | "idle"
  caught,      \* the error bound by the catch clause
  caughtLog,   \* history: every error caught so far, in order
  waits,       \* history: every setTimeout delay taken so far (ms), in order
  rounds,      \* history: number of request rounds issued (try bodies entered)
  ret,         \* the value returned, or None
  thrown,      \* the error the call rejected with, or None
  \* main / generateReadme
  mpc,         \* position of main
  formIdx,     \* the entry of the browser script main is at (0 before it)
  visible,     \* what createProjectButton.isVisible() answered
  tempDir,     \* the clone directory: "absent" | "present" | "deleted"
  readmeReqs,  \* history: chat completion requests issued by createReadme
  detailReqs,  \* history: chat completion requests issued by createDetailedDescription
  generated,   \* projectName/briefDescription/readme/detailedDescription, or None
  fills,       \* history: every page fill, in order
  uploads,     \* history: every setInputFiles, in order
  saves,       \* history: number of 'Save & Continue' clicks
  failedAt,    \* the stage whose error rejected main, or None
  \* readDirectory / summarizeFile
  tree,        \* the directory listing given to readDirectory
  input,       \* the (filename, content) given to summarizeFile
  spc,         \* "input" | "done" | "threw" | "idle"
  out,         \* the value returned by the function under study
  \* createReadme's JSON extraction
  response,    \* readmeResponse.choices[0].message.content
  embedded,    \* the object embedded in the response, or None
  jpc,         \* "input" | "returned" | "threw" | "idle"
  jout         \* the value createReadme resolved with, or None

imgVars  == <<fn, count, attempt, ipc, caught, caughtLog, waits, rounds, ret, thrown>>
mainVars == <<mpc, formIdx, visible, tempDir, readmeReqs, detailReqs, generated, fills, uploads, saves, failedAt>>
sumVars  == <<tree, input, spc, out>>
jsonVars == <<response, embedded, jpc, jout>>
vars     == <<imgVars, mainVars, sumVars, jsonVars>>

None == [kind |-> "none"]

Min(a, b) == IF a < b THEN a ELSE b

RECURSIVE Pow2(_)
Pow2(n) == IF n = 0 THEN 1 ELSE 2 * Pow2(n - 1)

\* All sequences over S of length at most n.
SeqsUpTo(S, n) == UNION {[1..k -> S] : k \in 0..n}

ImgIdle ==
  /\ fn = "none" /\ count = 0 /\ attempt = 0 /\ ipc = "idle"
  /\ caught = None /\ caughtLog = <<>> /\ waits = <<>> /\ rounds = 0
  /\ ret = None /\ thrown = None

MainIdle ==
  /\ mpc = "idle" /\ formIdx = 0 /\ visible = FALSE
  /\ tempDir = "absent" /\ readmeReqs = 0 /\ detailReqs = 0
  /\ generated = None /\ fills = <<>> /\ uploads = <<>> /\ saves = 0
  /\ failedAt = None

SumIdle == tree = None /\ input = None /\ spc = "idle" /\ out = None

JsonIdle == response = <<>> /\ embedded = None /\ jpc = "idle" /\ jout = None

(***************************************************************************)
(* generateImages and generateScreenshots                                  *)
(***************************************************************************)

maxRetries == 5

\* Largest count handed to generateScreenshots.
MaxCount == 2

\* Errors. `status` is error.response.status, or 0 when error.response is
\* undefined (a connection error, a plain Error, a fetch or fs failure).
Err(name, st)  == [kind |-> "error", name |-> name, status |-> st]
ApiError(st)   == Err("APIError", st)
ConnError      == Err("APIConnectionError", 0)
NoUrlError     == Err("Logo or cover URL is undefined", 0)
FetchError     == Err("fetch failed", 0)
WriteError     == Err("writeFileSync failed", 0)

ImagesExhausted      == Err("Failed to generate images after multiple attempts", 0)
ScreenshotsExhausted == Err("Failed to generate screenshots after multiple attempts", 0)

\* A resolved images.generate response whose data[i].url is present or not.
ImageResponse(hasUrl) == [kind |-> "response", url |-> hasUrl]

\* What one openai.images.generate request can come back with: a response
\* (whose data[i].url is present or not), or a rejection.
RequestErrors == {ApiError(429), ApiError(500), ConnError}

\* What one fetchAndSaveImage can do.
SaveOutcomes == {"saved", "fetchFailed", "writeFailed"}

SaveErrorOf(o) == IF o = "fetchFailed" THEN FetchError ELSE WriteError

IsRateLimitAny(error) == TRUE
IsRateLimit(error) == error.status # 0 /\ error.status = 429

WaitTimeLinear(a) == (a + 1) * 1000
WaitTime(a) == Pow2(a) * 1000

LoopGuardOffByOne(a) == a <= maxRetries
LoopGuard(a) == a < maxRetries

logoPath  == "logo.png"
coverPath == "cover.png"
screenshotPath(i) == <<"screenshot", i + 1, ".png">>

\* Enter the try body of generateImages: both requests are issued at once
\* (Promise.all); the round rejects with whichever rejection comes first,
\* else both URLs are checked and both downloads run at once.
GenerateImages_Try ==
  /\ fn = "images" /\ ipc = "loop" /\ LoopGuard(attempt)
  /\ rounds' = rounds + 1
  /\ \E logo, cover \in {ImageResponse(TRUE), ImageResponse(FALSE)} \cup RequestErrors :
       LET rejected == {r \in {logo, cover} : r.kind = "error"} IN
       IF rejected # {}
       THEN /\ \E e \in rejected : caught' = e
            /\ ipc' = "catch" /\ ret' = ret
       ELSE IF logo.url /\ cover.url
       THEN \E s1, s2 \in SaveOutcomes :
              LET failed == {s1, s2} \ {"saved"} IN
              IF failed = {}
              THEN /\ ret' = [kind |-> "images", logoPath |-> logoPath, coverPath |-> coverPath]
                   /\ ipc' = "returned" /\ caught' = caught
              ELSE /\ \E f \in failed : caught' = SaveErrorOf(f)
                   /\ ipc' = "catch" /\ ret' = ret
       ELSE /\ caught' = NoUrlError
            /\ ipc' = "catch" /\ ret' = ret
  /\ caughtLog' = IF ipc' = "catch" THEN Append(caughtLog, caught') ELSE caughtLog
  /\ UNCHANGED <<fn, count, attempt, waits, thrown>>
  /\ UNCHANGED <<mainVars, sumVars, jsonVars>>

\* The catch clause of generateImages.
GenerateImages_Catch ==
  /\ fn = "images" /\ ipc = "catch"
  /\ IF IsRateLimit(caught)
     THEN /\ waits' = Append(waits, WaitTime(attempt))
          /\ attempt' = attempt + 1
          /\ ipc' = "loop"
          /\ thrown' = thrown
     ELSE /\ thrown' = caught
          /\ ipc' = "thrown"
          /\ UNCHANGED <<waits, attempt>>
  /\ UNCHANGED <<fn, count, caught, caughtLog, rounds, ret>>
  /\ UNCHANGED <<mainVars, sumVars, jsonVars>>

\* The loop of generateImages ends: throw after the while.
GenerateImages_GiveUp ==
  /\ fn = "images" /\ ipc = "loop" /\ ~LoopGuard(attempt)
  /\ thrown' = ImagesExhausted
  /\ ipc' = "thrown"
  /\ UNCHANGED <<fn, count, attempt, caught, caughtLog, waits, rounds, ret>>
  /\ UNCHANGED <<mainVars, sumVars, jsonVars>>

\* The for loop of generateScreenshots over the slots of one response:
\* urls[i] says whether data[i].url is present, saves[i] what
\* fetchAndSaveImage does there.  Returns the paths pushed, or the error
\* thrown at the first slot whose download fails.
RECURSIVE SaveSlots(_, _, _, _)
SaveSlots(urls, sv, i, paths) ==
  IF i > Len(urls) THEN [ok |-> TRUE, paths |-> paths]
  ELSE IF urls[i]
       THEN IF sv[i] = "saved"
            THEN SaveSlots(urls, sv, i + 1, Append(paths, screenshotPath(i - 1)))
            ELSE [ok |-> FALSE, error |-> SaveErrorOf(sv[i])]
       ELSE SaveSlots(urls, sv, i + 1, paths)

\* Enter the try body of generateScreenshots: one batched request.
GenerateScreenshots_Try ==
  /\ fn = "screenshots" /\ ipc = "loop" /\ LoopGuard(attempt)
  /\ rounds' = rounds + 1
  /\ \/ \E e \in RequestErrors :
          /\ caught' = e /\ ipc' = "catch" /\ ret' = ret
     \/ \E urls \in [1..count -> BOOLEAN], sv \in [1..count -> SaveOutcomes] :
          LET r == SaveSlots(urls, sv, 1, <<>>) IN
          IF r.ok
          THEN /\ ret' = [kind |-> "screenshots", paths |-> r.paths]
               /\ ipc' = "returned" /\ caught' = caught
          ELSE /\ caught' = r.error /\ ipc' = "catch" /\ ret' = ret
  /\ caughtLog' = IF ipc' = "catch" THEN Append(caughtLog, caught') ELSE caughtLog
  /\ UNCHANGED <<fn, count, attempt, waits, thrown>>
  /\ UNCHANGED <<mainVars, sumVars, jsonVars>>

\* The catch clause of generateScreenshots.
GenerateScreenshots_Catch ==
  /\ fn = "screenshots" /\ ipc = "catch"
  /\ IF IsRateLimit(caught)
     THEN /\ waits' = Append(waits, WaitTime(attempt))
          /\ attempt' = attempt + 1
          /\ ipc' = "loop"
          /\ thrown' = thrown
     ELSE /\ thrown' = caught
          /\ ipc' = "thrown"
          /\ UNCHANGED <<waits, attempt>>
  /\ UNCHANGED <<fn, count, caught, caughtLog, rounds, ret>>
  /\ UNCHANGED <<mainVars, sumVars, jsonVars>>

\* The loop of generateScreenshots ends: throw after the while.
GenerateScreenshots_GiveUp ==
  /\ fn = "screenshots" /\ ipc = "loop" /\ ~LoopGuard(attempt)
  /\ thrown' = ScreenshotsExhausted
  /\ ipc' = "thrown"
  /\ UNCHANGED <<fn, count, attempt, caught, caughtLog, waits, rounds, ret>>
  /\ UNCHANGED <<mainVars, sumVars, jsonVars>>

ImagesInit ==
  /\ fn \in {"images", "screenshots"}
  /\ count \in IF fn = "screenshots" THEN 0..MaxCount ELSE {0}
  /\ attempt = 0 /\ ipc = "loop"
  /\ caught = None /\ caughtLog = <<>> /\ waits = <<>> /\ rounds = 0
  /\ ret = None /\ thrown = None
  /\ MainIdle /\ SumIdle /\ JsonIdle

ImagesNext ==
  \/ GenerateImages_Try
  \/ GenerateImages_Catch
  \/ GenerateImages_GiveUp
  \/ GenerateScreenshots_Try
  \/ GenerateScreenshots_Catch
  \/ GenerateScreenshots_GiveUp

ImagesSpec == ImagesInit /\ [][ImagesNext]_vars

Is429(e) == e.kind = "error" /\ e.status = 429

ExhaustedErrorOf(f) ==
  IF f = "images"
  THEN Err("Failed to generate images after multiple attempts", 0)
  ELSE Err("Failed to generate screenshots after multiple attempts", 0)

\* C1: one call of generateImages or generateScreenshots issues at most 5
\* request rounds, and once 5 rounds have all been answered with HTTP 429 the
\* call never returns paths: it can only wait and then reject with the
\* "after multiple attempts" error.
C1_AtMostFiveAttempts ==
  /\ rounds <= 5
  /\ (Len(caughtLog) = 5 /\ \A i \in 1..5 : Is429(caughtLog[i])) =>
       /\ ret = None
       /\ ipc \in {"catch", "loop", "thrown"}
       /\ ipc = "thrown" => thrown = ExhaustedErrorOf(fn)

C1_Witness ==
  /\ ipc = "thrown" /\ rounds = 5
  /\ Len(caughtLog) = 5 /\ \A i \in 1..5 : Is429(caughtLog[i])
  /\ thrown = ExhaustedErrorOf(fn)

BackoffSchedule == <<1000, 2000, 4000, 8000, 16000>>

\* C2: the wait taken after attempt k (from 0) is answered with 429 is 2^k
\* seconds, so the waits of one call are a prefix of 1, 2, 4, 8, 16 s, each the
\* double of the one before, none capped; the attempt counter equals the
\* number of 429 responses handled (one step per 429).
C2_BackoffDoubles ==
  /\ Len(waits) <= 5
  /\ \A i \in 1..Len(waits) : waits[i] = BackoffSchedule[i]
  /\ \A i \in 2..Len(waits) : waits[i] = 2 * waits[i - 1]
  /\ attempt = Len(waits)
  /\ attempt = Cardinality({i \in 1..Len(caughtLog) : Is429(caughtLog[i])})
                 - (IF ipc = "catch" /\ Is429(caught) THEN 1 ELSE 0)

C2_Witness == waits = <<1000, 2000, 4000, 8000, 16000>> /\ attempt = 5

\* C3: an attempt failing with anything but a 429 ends the call: it is the
\* last error caught, no wait follows it, no further round is issued, nothing
\* is returned, and the call rejects with that very error, whatever the
\* number of 429 responses before it.
C3_OtherErrorsAbort ==
  \A i \in 1..Len(caughtLog) :
    ~Is429(caughtLog[i]) =>
      /\ i = Len(caughtLog)
      /\ rounds = i
      /\ Len(waits) = i - 1
      /\ ret = None
      /\ ipc \in {"catch", "thrown"}
      /\ ipc = "thrown" => thrown = caughtLog[i]

C3_Witness ==
  /\ ipc = "thrown" /\ Len(caughtLog) = 4
  /\ \A i \in 1..3 : Is429(caughtLog[i])
  /\ ~Is429(caughtLog[4]) /\ thrown = caughtLog[4]
  /\ thrown.name = "fetch failed"

(***************************************************************************)
(* main and generateReadme                                                 *)
(***************************************************************************)

\* Strings are sequences of UTF-16 code units.

\* How far past the 279 limit the generated brief descriptions go.
MaxOver == 2

briefLimit == 279

\* A text of n code units, all positions distinguishable.
Text(n) == [i \in 1..n |-> 32 + (i % 95)]

\* String.prototype.slice(start, end) for non-negative arguments.
SliceInclusive(s, start, end) == SubSeq(s, Min(start, Len(s)) + 1, Min(end + 1, Len(s)))
Slice(s, start, end) == SubSeq(s, Min(start, Len(s)) + 1, Min(end, Len(s)))

shouldGenerateImages == FALSE
shouldGenerateVideoScript == FALSE

textTest     == <<116, 101, 115, 116>>
textEmoji    == <<240, 376, 381, 174>>
textRepoUrl  == <<104, 116, 116, 112, 115, 58, 47, 47, 103, 105, 116, 104, 117, 98, 46, 99, 111, 109, 47, 104, 101, 110, 114, 105, 107, 107, 118, 47, 104, 97, 99, 107, 97, 116, 104, 111, 110, 45, 115, 117, 98, 109, 105, 116>>
textFallback == <<78, 111, 32, 100, 101, 116, 97, 105, 108, 101, 100, 32, 100, 101, 115, 99, 114, 105, 112, 116, 105, 111, 110, 32, 103, 101, 110, 101, 114, 97, 116, 101, 100>>

\* What the model can answer for the brief description and for the detailed
\* description (message.content; empty stands for null/undefined/'' alike).
BriefTexts  == {Text(n) : n \in {0, 1, briefLimit - 1, briefLimit, briefLimit + 1, briefLimit + MaxOver}}
DetailTexts == {Text(n) : n \in {0, 3, briefLimit + MaxOver}}

Failure(stage, cause) == [kind |-> "failure", stage |-> stage, cause |-> cause]

\* Where control goes when a stage throws: nothing in generateReadme or in
\* main catches, so the promise of main rejects and nothing more of it runs.
AfterThrowSwallowed(next) == next
AfterThrow(next) == "rejected"

\* fs.rmSync(tempDir, {recursive: true, force: true})
rmSyncSkipped(dir) == dir
rmSync(dir) == "deleted"

\* process.argv check.
Main_Args ==
  /\ mpc = "args"
  /\ \/ mpc' = "exit1"      \* an argument is missing: process.exit(1)
     \/ mpc' = "launch"
  /\ UNCHANGED <<tempDir, readmeReqs, detailReqs, generated, fills, uploads, saves, failedAt>>
  /\ UNCHANGED <<formIdx, visible>>
  /\ UNCHANGED <<imgVars, sumVars, jsonVars>>

\* chromium.launch, newPage, goto, pause.
Main_Launch ==
  /\ mpc = "launch"
  /\ \/ /\ mpc' = "clone" /\ failedAt' = failedAt
     \/ /\ mpc' = AfterThrow("clone") /\ failedAt' = Failure("browser", "goto")
  /\ UNCHANGED <<tempDir, readmeReqs, detailReqs, generated, fills, uploads, saves>>
  /\ UNCHANGED <<formIdx, visible>>
  /\ UNCHANGED <<imgVars, sumVars, jsonVars>>

\* generateReadme: cloneRepository.
GenerateReadme_Clone ==
  /\ mpc = "clone"
  /\ \/ /\ mpc' = "summarize" /\ tempDir' = "present" /\ failedAt' = failedAt
     \/ /\ mpc' = AfterThrow("summarize") /\ failedAt' = Failure("clone", "git")
        /\ tempDir' = tempDir
  /\ UNCHANGED <<readmeReqs, detailReqs, generated, fills, uploads, saves>>
  /\ UNCHANGED <<formIdx, visible>>
  /\ UNCHANGED <<imgVars, sumVars, jsonVars>>

\* generateReadme: readDirectory, then rmSync, with no await between them.
\* readDirectory throws when readdirSync or lstatSync does.
GenerateReadme_Summarize ==
  /\ mpc = "summarize"
  /\ \/ /\ mpc' = "createReadme" /\ tempDir' = rmSync(tempDir) /\ failedAt' = failedAt
     \/ /\ mpc' = AfterThrow("createReadme") /\ failedAt' = Failure("summarize", "readdir")
        /\ tempDir' = tempDir
  /\ UNCHANGED <<readmeReqs, detailReqs, generated, fills, uploads, saves>>
  /\ UNCHANGED <<formIdx, visible>>
  /\ UNCHANGED <<imgVars, sumVars, jsonVars>>

\* createReadme: one chat completion request; every failure inside the try is
\* rethrown as 'Failed to parse JSON from OpenAI response'.
CreateReadme_Call ==
  /\ mpc = "createReadme"
  /\ readmeReqs' = readmeReqs + 1
  /\ \/ \E b \in BriefTexts :
          /\ generated' = [kind |-> "content", projectName |-> Text(2),
                         briefDescription |-> b, readme |-> Text(4),
                         detailedDescription |-> <<>>]
          /\ mpc' = "createDetailed" /\ failedAt' = failedAt
     \/ \E cause \in {"api", "noJson", "jsonParse"} :
          /\ mpc' = AfterThrow("createDetailed")
          /\ failedAt' = Failure("createReadme", cause)
          /\ generated' = generated
  /\ UNCHANGED <<tempDir, detailReqs, fills, uploads, saves>>
  /\ UNCHANGED <<formIdx, visible>>
  /\ UNCHANGED <<imgVars, sumVars, jsonVars>>

\* createDetailedDescription: one chat completion request; the content, or
\* the fallback literal when it is empty.
CreateDetailedDescription_Call ==
  /\ mpc = "createDetailed"
  /\ detailReqs' = detailReqs + 1
  /\ \/ \E d \in DetailTexts :
          /\ generated' = [generated EXCEPT !.detailedDescription =
                           IF d # <<>> THEN d ELSE textFallback]
          /\ mpc' = "assets" /\ failedAt' = failedAt
     \/ /\ mpc' = AfterThrow("assets")
        /\ failedAt' = Failure("createDetailedDescription", "api")
        /\ generated' = generated
  /\ UNCHANGED <<tempDir, readmeReqs, fills, uploads, saves>>
  /\ UNCHANGED <<formIdx, visible>>
  /\ UNCHANGED <<imgVars, sumVars, jsonVars>>

screenshotCount == 6

\* The browser script of main from line 518 on, one entry per awaited
\* interaction, in order.  "if" entries are skipped when the 'Create Project'
\* button is not visible.
FormScript ==
  <<[op |-> "pause"],
    [op |-> "isVisible"],
    [op |-> "fill", field |-> "MyAwesomeProject", value |-> "test", if |-> TRUE],
    [op |-> "click", target |-> "What category does your project belong to?", if |-> TRUE],
    [op |-> "click", target |-> "Gaming", if |-> TRUE],
    [op |-> "fill", field |-> "Pick an emoji", value |-> "emoji", if |-> TRUE],
    [op |-> "check", target |-> "checkbox", if |-> TRUE],
    [op |-> "click", target |-> "Create Project", if |-> TRUE],
    [op |-> "pause"],
    [op |-> "fill", field |-> "Exchange onramp/offramp using", value |-> "truncatedBriefDescription"],
    [op |-> "fill", field |-> "This project combines a state", value |-> "detailedDescription"],
    [op |-> "fill", field |-> "This project uses the @", value |-> "detailedDescription"],
    [op |-> "fill", field |-> "https://github.com/hackathon/", value |-> "repoUrl"],
    [op |-> "save"],
    [op |-> "pause"],
    [op |-> "upload", input |-> "logoId", path |-> "logo.png"],
    [op |-> "upload", input |-> "bannerId", path |-> "cover.png"],
    [op |-> "upload", input |-> "screenshot1", path |-> "screenshot1.png"],
    [op |-> "upload", input |-> "screenshot2", path |-> "screenshot2.png"],
    [op |-> "upload", input |-> "screenshot3", path |-> "screenshot3.png"],
    [op |-> "upload", input |-> "screenshot4", path |-> "screenshot4.png"],
    [op |-> "upload", input |-> "screenshot5", path |-> "screenshot5.png"],
    [op |-> "upload", input |-> "screenshot6", path |-> "screenshot6.png"],
    [op |-> "wait"],
    [op |-> "pause"],
    [op |-> "save"],
    [op |-> "pause"],
    [op |-> "upload", input |-> "video", path |-> "video.mp4"],
    [op |-> "wait"],
    [op |-> "save"],
    [op |-> "pause"],
    [op |-> "select", target |-> "techDevTools"],
    [op |-> "select", target |-> "techBlockchain"],
    [op |-> "select", target |-> "techLanguages"],
    [op |-> "select", target |-> "techWebFrameworks"],
    [op |-> "select", target |-> "techDatabases"],
    [op |-> "select", target |-> "techDesign"],
    [op |-> "save"],
    [op |-> "pause"],
    [op |-> "click", target |-> "Partner Prizes only"],
    [op |-> "save"],
    [op |-> "pause"],
    [op |-> "check", target |-> "checkbox"],
    [op |-> "save"],
    [op |-> "pause"],
    [op |-> "click", target |-> "Submit project"],
    [op |-> "pause"],
    [op |-> "close"]>>

\* The text a fill entry sends.
FillValue(tag) ==
  CASE tag = "truncatedBriefDescription" -> Slice(generated.briefDescription, 0, briefLimit)
    [] tag = "detailedDescription"       -> generated.detailedDescription
    [] tag = "test"                      -> textTest
    [] tag = "emoji"                     -> textEmoji
    [] tag = "repoUrl"                   -> textRepoUrl

\* main, lines 484-516: both flags are off, so no video script and no image
\* generation; the image paths are the fixed files on disk.
Main_Assets ==
  /\ mpc = "assets"
  /\ ~shouldGenerateVideoScript /\ ~shouldGenerateImages
  /\ mpc' = "form" /\ formIdx' = 1
  /\ UNCHANGED <<tempDir, readmeReqs, detailReqs, generated, fills, uploads, saves, failedAt>>
  /\ UNCHANGED visible
  /\ UNCHANGED <<imgVars, sumVars, jsonVars>>

\* One awaited browser interaction of main: it throws (a missing selector,
\* an unexpected page state), or it acts and main moves to the next one.
Main_FormStep ==
  /\ mpc = "form"
  /\ LET e    == FormScript[formIdx]
         skip == "if" \in DOMAIN e /\ ~visible
         next == IF formIdx = Len(FormScript) THEN "closed" ELSE "form"
     IN
     \/ /\ ~skip
        /\ mpc' = AfterThrow(next)
        /\ failedAt' = Failure("browser", e.op)
        /\ UNCHANGED <<formIdx, visible, fills, uploads, saves>>
     \/ /\ failedAt' = failedAt
        /\ mpc' = next
        /\ formIdx' = formIdx + 1
        /\ IF e.op = "isVisible"
           THEN visible' \in BOOLEAN
           ELSE visible' = visible
        /\ fills' = IF e.op = "fill" /\ ~skip
                    THEN Append(fills, [field |-> e.field, value |-> FillValue(e.value)])
                    ELSE fills
        /\ uploads' = IF e.op = "upload"
                      THEN Append(uploads, [input |-> e.input, path |-> e.path])
                      ELSE uploads
        /\ saves' = IF e.op = "save" THEN saves + 1 ELSE saves
  /\ UNCHANGED <<tempDir, readmeReqs, detailReqs, generated>>
  /\ UNCHANGED <<imgVars, sumVars, jsonVars>>

MainInit ==
  /\ mpc = "args" /\ formIdx = 0 /\ visible = FALSE
  /\ tempDir = "absent" /\ readmeReqs = 0 /\ detailReqs = 0
  /\ generated = None /\ fills = <<>> /\ uploads = <<>> /\ saves = 0
  /\ failedAt = None
  /\ ImgIdle /\ SumIdle /\ JsonIdle

MainNext ==
  \/ Main_Args
  \/ Main_Launch
  \/ GenerateReadme_Clone
  \/ GenerateReadme_Summarize
  \/ CreateReadme_Call
  \/ CreateDetailedDescription_Call
  \/ Main_Assets
  \/ Main_FormStep

MainSpec == MainInit /\ [][MainNext]_vars

Failed(stage) == failedAt.kind = "failure" /\ failedAt.stage = stage

NothingSubmitted == fills = <<>> /\ uploads = <<>> /\ saves = 0

\* C4: a failure of the README request or of the detailed-description request
\* ends the run without retry: each request is issued at most once, a README
\* failure leaves the detailed-description request unissued, and after either
\* failure nothing is filled, uploaded or saved and main does not go on.
C4_TextFailureAborts ==
  /\ readmeReqs <= 1 /\ detailReqs <= 1
  /\ Failed("createReadme") =>
       /\ mpc = "rejected" /\ readmeReqs = 1 /\ detailReqs = 0 /\ NothingSubmitted
  /\ Failed("createDetailedDescription") =>
       /\ mpc = "rejected" /\ readmeReqs = 1 /\ detailReqs = 1 /\ NothingSubmitted

C4_Witness ==
  /\ failedAt = Failure("createReadme", "noJson")
  /\ mpc = "rejected" /\ readmeReqs = 1 /\ detailReqs = 0

\* C5 as stated: whenever a stage after a successful clone fails, the clone
\* directory is still there (left undeleted).
C5_Original ==
  (failedAt.kind = "failure" /\ tempDir # "absent") => tempDir = "present"

\* C5, amended: the clone directory is left undeleted only when summarization
\* itself fails; it is removed as soon as summarization succeeds, before any
\* text-generation request, so a failure of README generation, of the JSON
\* extraction/parse, of the detailed-description request or of a later browser
\* interaction finds it already removed; it is never removed unless
\* summarization succeeded.
C5_RemovedRightAfterSummarization ==
  /\ Failed("summarize") => tempDir = "present"
  /\ (Failed("createReadme") \/ Failed("createDetailedDescription")
        \/ (Failed("browser") /\ formIdx > 0)) => tempDir = "deleted"
  /\ tempDir = "deleted" =>
       /\ mpc \notin {"args", "exit1", "launch", "clone", "summarize"}
       /\ ~Failed("clone") /\ ~Failed("summarize")
  /\ (readmeReqs > 0 \/ detailReqs > 0 \/ mpc = "createReadme") => tempDir = "deleted"

C5_Witness ==
  /\ failedAt = Failure("createReadme", "jsonParse")
  /\ mpc = "rejected" /\ tempDir = "deleted"

fieldBrief    == "Exchange onramp/offramp using"
fieldsNoLimit == {"This project combines a state", "This project uses the @"}

FillsOf(fields) == {i \in 1..Len(fills) : fills[i].field \in fields}

\* C10: the length-constrained field receives exactly the first 279
\* characters of a brief description longer than 279 characters and the whole
\* of a shorter one; the two fields without a limit receive the detailed
\* description in full, whatever its length; by the first 'Save & Continue'
\* each of the three fields has been filled once.
C10_BriefTruncatedTo279 ==
  /\ \A i \in FillsOf({fieldBrief}) :
       LET v == fills[i].value
           b == generated.briefDescription
       IN /\ Len(v) = IF Len(b) > 279 THEN 279 ELSE Len(b)
          /\ \A k \in 1..Len(v) : v[k] = b[k]
          /\ Len(b) <= 279 => v = b
  /\ \A i \in FillsOf(fieldsNoLimit) : fills[i].value = generated.detailedDescription
  /\ saves >= 1 =>
       /\ Cardinality(FillsOf({fieldBrief})) = 1
       /\ \A f \in fieldsNoLimit : Cardinality(FillsOf({f})) = 1

C10_Witness ==
  /\ saves >= 1
  /\ Len(generated.briefDescription) > 279
  /\ Len(generated.detailedDescription) > 279
  /\ \E i \in FillsOf({fieldBrief}) : Len(fills[i].value) = 279
  /\ \E i \in FillsOf(fieldsNoLimit) : Len(fills[i].value) > 279

(***************************************************************************)
(* readDirectory and summarizeFile                                         *)
(***************************************************************************)

\* Output strings are sequences of pieces: a piece is one character or one
\* literal of the source (a label, a separator).  File names and markdown
\* texts are sequences of characters.

\* String.prototype.endsWith
EndsWith(s, suffix) ==
  /\ Len(s) >= Len(suffix)
  /\ SubSeq(s, Len(s) - Len(suffix) + 1, Len(s)) = suffix

extJs   == <<".", "j", "s">>
extTs   == <<".", "t", "s">>
extPy   == <<".", "p", "y">>
extJava == <<".", "j", "a", "v", "a">>
extMd   == <<".", "m", "d">>

\* Array.prototype.join: the parts with sep between neighbours.
RECURSIVE Join(_, _)
Join(parts, sep) ==
  IF parts = <<>> THEN <<>>
  ELSE IF Len(parts) = 1 THEN parts[1]
  ELSE parts[1] \o sep \o Join(Tail(parts), sep)

\* String.prototype.split(sep) for a one-character separator.
RECURSIVE SplitFrom(_, _, _, _)
SplitFrom(s, sep, i, cur) ==
  IF i > Len(s) THEN <<cur>>
  ELSE IF s[i] = sep THEN <<cur>> \o SplitFrom(s, sep, i + 1, <<>>)
  ELSE SplitFrom(s, sep, i + 1, Append(cur, s[i]))

\* A split that loses the empty pieces.
SplitSkipEmpty(s, sep) ==
  LET NonEmpty(piece) == piece # <<>> IN SelectSeq(SplitFrom(s, sep, 1, <<>>), NonEmpty)

Split(s, sep) == SplitFrom(s, sep, 1, <<>>)

\* A file's content: its text and what @babel/parser's parse makes of it
\* (the program body, or a thrown SyntaxError).
Content(text, ast) == [text |-> text, ast |-> ast]
ParseError == [kind |-> "error", body |-> <<>>]
Ast(body)  == [kind |-> "ast", body |-> body]
Parse(c)   == c.ast

\* Top-level statements.  `name` is source.value of an import, id.name of a
\* class or function declaration; an export statement carries the
\* declaration it wraps in declType/declName ("" when there is none).
Node(type, name, declType, declName) ==
  [type |-> type, name |-> name, declType |-> declType, declName |-> declName]
ImportDecl(src)         == Node("ImportDeclaration", src, "", "")
ClassDecl(id)           == Node("ClassDeclaration", id, "", "")
FunctionDecl(id)        == Node("FunctionDeclaration", id, "", "")
VariableDecl            == Node("VariableDeclaration", "", "", "")
ExportNamed(dt, dn)     == Node("ExportNamedDeclaration", "", dt, dn)
ExportDefault(dt, dn)   == Node("ExportDefaultDeclaration", "", dt, dn)

NoLists == [imports |-> <<>>, exports |-> <<>>, classes |-> <<>>, functions |-> <<>>]

\* The switch of summarizeFile on one node of ast.program.body.
VisitNode(acc, node) ==
  CASE node.type = "ImportDeclaration" ->
         [acc EXCEPT !.imports = Append(@, node.name)]
    [] node.type \in {"ExportNamedDeclaration", "ExportDefaultDeclaration"} ->
         [acc EXCEPT !.exports = Append(@, node.type)]
    [] node.type = "ClassDeclaration" ->
         IF node.name # "" THEN [acc EXCEPT !.classes = Append(@, node.name)] ELSE acc
    [] node.type = "FunctionDeclaration" ->
         IF node.name # "" THEN [acc EXCEPT !.functions = Append(@, node.name)] ELSE acc
    [] OTHER -> acc

\* ast.program.body.forEach
RECURSIVE VisitBody(_, _, _)
VisitBody(body, i, acc) ==
  IF i > Len(body) THEN acc ELSE VisitBody(body, i + 1, VisitNode(acc, body[i]))

labelImports   == "- **Imports:** "
labelExports   == "- **Exports:** "
labelClasses   == "- **Classes:** "
labelFunctions == "- **Functions:** "
labelPreview   == "- **Content Preview:**\n"
textNoSummary  == "- **Summary:** Not available for this file type.\n"
commaSpace     == ", "
newline        == "\n"

\* `${label}${list.join(', ')}\n`
ListLine(label, list) ==
  <<label>> \o Join([i \in 1..Len(list) |-> <<list[i]>>], <<commaSpace>>) \o <<newline>>

previewLines == 5

SummarizeFile(content, filename) ==
  IF EndsWith(filename, extJs) \/ EndsWith(filename, extTs)
  THEN LET ast == Parse(content) IN
       IF ast.kind = "error"
       THEN <<>>   \* the catch logs; summary stays ''
       ELSE LET l == VisitBody(ast.body, 1, NoLists) IN
            ListLine(labelImports, l.imports) \o ListLine(labelExports, l.exports)
              \o ListLine(labelClasses, l.classes) \o ListLine(labelFunctions, l.functions)
  ELSE IF EndsWith(filename, extPy)
  THEN <<>>       \* empty branch
  ELSE IF EndsWith(filename, extMd)
  THEN LET lines == Join(Slice(Split(content.text, newline), 0, previewLines), <<newline>>)
       IN <<labelPreview>> \o lines \o <<newline>>
  ELSE <<textNoSummary>>

fileHeader == "\n\n---\n**File:** "
pathSep    == "/"

\* Directory entries.  A file: whether readFileSync succeeds on it, and its
\* content.  A directory: whether readdirSync succeeds on it, and its entries
\* in readdirSync order.
FileEntry(name, readable, content) ==
  [name |-> name, isDirectory |-> FALSE, ok |-> readable, content |-> content, files |-> <<>>]
DirEntry(name, listable, files) ==
  [name |-> name, isDirectory |-> TRUE, ok |-> listable, content |-> Content(<<>>, ParseError), files |-> files]

Returned(content) == [threw |-> FALSE, content |-> content]
Threw             == [threw |-> TRUE, content |-> <<>>]

IsSummarizedNoJava(file) ==
  \/ EndsWith(file, extJs) \/ EndsWith(file, extTs) \/ EndsWith(file, extPy)
  \/ EndsWith(file, extMd)
IsSummarized(file) ==
  \/ EndsWith(file, extJs) \/ EndsWith(file, extTs) \/ EndsWith(file, extPy)
  \/ EndsWith(file, extJava) \/ EndsWith(file, extMd)

\* `\n\n---\n**File:** ${filePath.replace(dir, '')}\n${fileSummary}\n`, where
\* filePath is path.join(dir, file).
SectionUnlessEmpty(file, fileSummary) ==
  IF fileSummary = <<>> THEN <<>>
  ELSE <<fileHeader, pathSep>> \o file \o <<newline>> \o fileSummary \o <<newline>>
Section(file, fileSummary) ==
  <<fileHeader, pathSep>> \o file \o <<newline>> \o fileSummary \o <<newline>>

RECURSIVE ReadDirectory(_)
RECURSIVE ReadFiles(_, _, _)

\* The for loop of readDirectory from entry i on, content being what has
\* been accumulated.
ReadFiles(files, i, content) ==
  IF i > Len(files) THEN Returned(content)
  ELSE LET f == files[i] IN
       IF f.isDirectory
       THEN LET sub == ReadDirectory(f) IN
            IF sub.threw THEN Threw
            ELSE ReadFiles(files, i + 1, content \o sub.content)
       ELSE IF IsSummarized(f.name)
       THEN IF ~f.ok
            THEN ReadFiles(files, i + 1, content)    \* readFileSync threw: continue
            ELSE ReadFiles(files, i + 1,
                           content \o Section(f.name, SummarizeFile(f.content, f.name)))
       ELSE ReadFiles(files, i + 1, content)

ReadDirectory(dir) ==
  IF ~dir.ok THEN Threw     \* readdirSync threw
  ELSE ReadFiles(dir.files, 1, <<>>)

\* Bounds of the directory trees given to readDirectory: entries in the whole
\* tree, and nesting of subdirectories below the root.
MaxEntries == 3
MaxDepth == 2

codeOk   == Content(<<>>, Ast(<<ImportDecl("m"), FunctionDecl("f")>>))
codeBad  == Content(<<>>, ParseError)
textFile == Content(<<"a", newline, "b">>, ParseError)

\* The files a tree can hold: every allow-listed extension, readable or not,
\* code that parses or not, and two names outside the allow-list.
FileVariants ==
  {FileEntry(n, TRUE, c) : n \in {<<"a", ".", "j", "s">>, <<"b", ".", "t", "s">>}, c \in {codeOk, codeBad}}
    \cup {FileEntry(n, FALSE, codeOk) : n \in {<<"a", ".", "j", "s">>, <<"b", ".", "t", "s">>}}
    \cup {FileEntry(n, r, textFile) : n \in {<<"c", ".", "p", "y">>, <<"d", ".", "j", "a", "v", "a">>, <<"e", ".", "m", "d">>}, r \in BOOLEAN}
    \cup {FileEntry(n, TRUE, textFile) : n \in {<<"f", ".", "t", "x", "t">>, <<"g", ".", "j", "s", "x">>}}

dirName == <<"l", "i", "b">>

\* Number of entries in a listing, subdirectories' entries included.
RECURSIVE Size(_)
Size(files) ==
  IF files = <<>> THEN 0
  ELSE 1 + Size(files[Len(files)].files) + Size(SubSeq(files, 1, Len(files) - 1))

\* How many directories deep the last entry of a listing can still take entries.
RECURSIVE SpineDepth(_)
SpineDepth(files) ==
  IF files # <<>> /\ files[Len(files)].isDirectory /\ files[Len(files)].ok
  THEN 1 + SpineDepth(files[Len(files)].files)
  ELSE 0

\* The listing with entry e added at the end of the directory k levels down
\* its last entries.
RECURSIVE AppendAt(_, _, _)
AppendAt(files, k, e) ==
  IF k = 0 THEN Append(files, e)
  ELSE [files EXCEPT ![Len(files)].files = AppendAt(@, k - 1, e)]

\* The clone lays out the repository: one more file or directory, added in
\* listing order.  Every tree of at most MaxEntries entries nested at most
\* MaxDepth deep is laid out this way.
CloneRepository_Populate ==
  /\ spc = "dir" /\ tree.ok
  /\ Size(tree.files) < MaxEntries
  /\ \E k \in 0..SpineDepth(tree.files) :
       \E e \in FileVariants \cup (IF k < MaxDepth
                                   THEN {DirEntry(dirName, ok, <<>>) : ok \in BOOLEAN}
                                   ELSE {}) :
         tree' = [tree EXCEPT !.files = AppendAt(@, k, e)]
  /\ UNCHANGED <<input, spc, out>>
  /\ UNCHANGED <<imgVars, mainVars, jsonVars>>

ReadDirectory_Call ==
  /\ spc = "dir"
  /\ out' = ReadDirectory(tree)
  /\ spc' = IF out'.threw THEN "threw" ELSE "done"
  /\ UNCHANGED <<tree, input>>
  /\ UNCHANGED <<imgVars, mainVars, jsonVars>>

DirInit ==
  /\ tree \in {DirEntry(<<>>, ok, <<>>) : ok \in BOOLEAN}
  /\ input = None /\ spc = "dir" /\ out = None
  /\ ImgIdle /\ MainIdle /\ JsonIdle

DirNext ==
  \/ CloneRepository_Populate
  \/ ReadDirectory_Call

DirSpec == DirInit /\ [][DirNext]_vars

\* Bounds of the files given to summarizeFile alone: top-level statements of
\* a code file, characters of a text file.
MaxNodes == 3
MaxText == 6

NodeVariants ==
  {ImportDecl("m1"), ImportDecl("m2"), ClassDecl("A"), ClassDecl("B"),
   FunctionDecl("f"), FunctionDecl("g"), VariableDecl,
   ExportNamed("ClassDeclaration", "C"), ExportNamed("FunctionDeclaration", "h"),
   ExportNamed("", ""), ExportDefault("ClassDeclaration", ""),
   ExportDefault("FunctionDeclaration", "k")}

FileInputs ==
  {[kind |-> "file", filename |-> n, content |-> Content(<<>>, Ast(b))] :
     n \in {<<"a", ".", "j", "s">>, <<"b", ".", "t", "s">>}, b \in SeqsUpTo(NodeVariants, MaxNodes)}
    \cup {[kind |-> "file", filename |-> n, content |-> codeBad] : n \in {<<"a", ".", "j", "s">>, <<"b", ".", "t", "s">>}}
    \cup {[kind |-> "file", filename |-> n, content |-> Content(t, ParseError)] :
            n \in {<<"c", ".", "p", "y">>, <<"d", ".", "j", "a", "v", "a">>, <<"e", ".", "m", "d">>}, t \in SeqsUpTo({"a", newline}, MaxText)}

SummarizeFile_Call ==
  /\ spc = "file"
  /\ out' = Returned(SummarizeFile(input.content, input.filename))
  /\ spc' = "done"
  /\ UNCHANGED <<tree, input>>
  /\ UNCHANGED <<imgVars, mainVars, jsonVars>>

SummarizeInit ==
  /\ input \in FileInputs /\ tree = None /\ spc = "file" /\ out = None
  /\ ImgIdle /\ MainIdle /\ JsonIdle

SummarizeNext == SummarizeFile_Call

SummarizeSpec == SummarizeInit /\ [][SummarizeNext]_vars

(***************************************************************************)
(* Reading the summary blob back                                           *)
(***************************************************************************)

\* The pieces of c from position i up to the next line end.
RECURSIVE LineAt(_, _)
LineAt(c, i) ==
  IF i > Len(c) \/ c[i] = "\n" THEN <<>> ELSE <<c[i]>> \o LineAt(c, i + 1)

\* The pieces of c from position i up to the next 'File:' header.
RECURSIVE UpToHeader(_, _)
UpToHeader(c, i) ==
  IF i > Len(c) \/ c[i] = "\n\n---\n**File:** " THEN <<>>
  ELSE <<c[i]>> \o UpToHeader(c, i + 1)

\* The 'File:' sections of a blob, in order: the path on the header line and
\* what follows that line.
RECURSIVE SectionsFrom(_, _)
SectionsFrom(c, i) ==
  IF i > Len(c) THEN <<>>
  ELSE IF c[i] = "\n\n---\n**File:** "
       THEN LET path == LineAt(c, i + 1) IN
            <<[path |-> path, body |-> UpToHeader(c, i + 2 + Len(path))]>>
              \o SectionsFrom(c, i + 1)
       ELSE SectionsFrom(c, i + 1)

Sections(c) == SectionsFrom(c, 1)

\* The files of a listing in traversal order, a subdirectory's files at the
\* place of the subdirectory.
RECURSIVE FilesIn(_)
FilesIn(files) ==
  IF files = <<>> THEN <<>>
  ELSE (IF Head(files).isDirectory THEN FilesIn(Head(files).files) ELSE <<Head(files)>>)
         \o FilesIn(Tail(files))

AllowList == {<<".", "j", "s">>, <<".", "t", "s">>, <<".", "p", "y">>, <<".", "j", "a", "v", "a">>, <<".", "m", "d">>}
AllowListed(f) == \E ext \in AllowList : EndsWith(f.name, ext)
IsCode(f)      == EndsWith(f.name, <<".", "j", "s">>) \/ EndsWith(f.name, <<".", "t", "s">>)
ParseFails(f)  == IsCode(f) /\ f.content.ast.kind = "error"

PathsOf(fs) == [i \in 1..Len(fs) |-> <<"/">> \o fs[i].name]
SectionPaths == [i \in 1..Len(Sections(out.content)) |-> Sections(out.content)[i].path]

RECURSIVE AllListable(_)
AllListable(files) ==
  \A i \in 1..Len(files) :
    files[i].isDirectory => (files[i].ok /\ AllListable(files[i].files))

\* How deep below the root the deepest allow-listed file lies (-1: none).
RECURSIVE Deepest(_)
Deepest(files) ==
  LET d(i) == IF files[i].isDirectory
              THEN (IF Deepest(files[i].files) >= 0
                    THEN 1 + Deepest(files[i].files) ELSE -1)
              ELSE (IF AllowListed(files[i]) THEN 0 ELSE -1)
      ds == {d(i) : i \in 1..Len(files)} \cup {-1}
  IN CHOOSE m \in ds : \A x \in ds : x <= m

\* C6 as stated: the blob holds exactly one 'File:' section for each file
\* with an allow-listed extension and none for any other file, at every
\* depth, in traversal order.
C6_Original ==
  spc = "done" => SectionPaths = PathsOf(SelectSeq(FilesIn(tree.files), AllowListed))

\* C6, amended: the blob holds exactly one 'File:' section for each file
\* with an allow-listed extension whose content could be read, and none for
\* any other file, at every depth, in traversal order.
C6_OneSectionPerReadableAllowListedFile ==
  spc = "done" =>
    LET Wanted(f) == AllowListed(f) /\ f.ok IN
    SectionPaths = PathsOf(SelectSeq(FilesIn(tree.files), Wanted))

C6_Witness ==
  /\ spc = "done"
  /\ Deepest(tree.files) >= 1
  /\ \E i \in 1..Len(tree.files) : ~tree.files[i].isDirectory /\ ~AllowListed(tree.files[i])
  /\ Len(Sections(out.content)) = 1

\* C7 as stated: a file whose read or parse fails contributes no section;
\* the error stays inside readDirectory; every other allow-listed file gets
\* its section.
C7_Original ==
  /\ (spc # "dir" /\ tree.ok /\ AllListable(tree.files)) => spc = "done"
  /\ spc = "done" =>
       LET Wanted(f) == AllowListed(f) /\ f.ok /\ ~ParseFails(f) IN
       SectionPaths = PathsOf(SelectSeq(FilesIn(tree.files), Wanted))

\* C7, amended: neither error leaves readDirectory.  A file whose read fails
\* contributes no section; a file whose parse fails keeps its 'File:' section,
\* with an empty synopsis; every other allow-listed file, whether visited
\* before or after the failing one, gets its section.
C7_ReadErrorOmitsParseErrorEmpties ==
  /\ (spc # "dir" /\ tree.ok /\ AllListable(tree.files)) => spc = "done"
  /\ spc = "done" =>
       LET Wanted(f) == AllowListed(f) /\ f.ok
           fs        == SelectSeq(FilesIn(tree.files), Wanted)
           secs      == Sections(out.content)
       IN /\ Len(secs) = Len(fs)
          /\ \A i \in 1..Len(fs) :
               /\ secs[i].path = <<"/">> \o fs[i].name
               /\ ParseFails(fs[i]) => secs[i].body = <<"\n">>
               /\ (IsCode(fs[i]) /\ ~ParseFails(fs[i])) => Len(secs[i].body) > 1

C7_Witness ==
  /\ spc = "done"
  /\ Len(tree.files) = 3
  /\ AllowListed(tree.files[1]) /\ ~tree.files[1].isDirectory /\ ~tree.files[1].ok
  /\ ~tree.files[2].isDirectory /\ tree.files[2].ok /\ ParseFails(tree.files[2])
  /\ ~tree.files[3].isDirectory /\ tree.files[3].ok /\ IsCode(tree.files[3])
  /\ ~ParseFails(tree.files[3])
  /\ Len(Sections(out.content)) = 2

\* The entries of the summary line that starts with label.
RECURSIVE ListAfter(_, _, _)
ListAfter(summary, label, i) ==
  IF i > Len(summary) THEN <<>>
  ELSE IF summary[i] = label
       THEN LET IsName(x) == x # ", " IN SelectSeq(LineAt(summary, i + 1), IsName)
       ELSE ListAfter(summary, label, i + 1)

\* The names a file declares with statements of the given type, in document
\* order: plain top-level declarations and, when exported is TRUE, the named
\* declarations wrapped in a top-level export statement too.
RECURSIVE Declared(_, _, _)
Declared(body, type, exported) ==
  IF body = <<>> THEN <<>>
  ELSE LET n == Head(body) IN
       (IF n.type = type /\ n.name # "" THEN <<n.name>>
        ELSE IF exported /\ n.declType = type /\ n.declName # "" THEN <<n.declName>>
        ELSE <<>>) \o Declared(Tail(body), type, exported)

ValidCodeSummarized ==
  /\ spc = "done" /\ input.kind = "file"
  /\ EndsWith(input.filename, <<".", "j", "s">>) \/ EndsWith(input.filename, <<".", "t", "s">>)
  /\ input.content.ast.kind = "ast"

\* C8: for a syntactically valid .js/.ts file the synopsis lists every
\* top-level import source, class name and function name, the declarations
\* exported at top level included, each list in document order and with no
\* entry more often than it is declared.
C8_Original ==
  ValidCodeSummarized =>
    LET body == input.content.ast.body
        s    == out.content
    IN /\ ListAfter(s, "- **Imports:** ", 1) = Declared(body, "ImportDeclaration", TRUE)
       /\ ListAfter(s, "- **Classes:** ", 1) = Declared(body, "ClassDeclaration", TRUE)
       /\ ListAfter(s, "- **Functions:** ", 1) = Declared(body, "FunctionDeclaration", TRUE)

\* What summarizeFile does list: the import sources and the names of the
\* classes and functions declared by plain top-level statements; an exported
\* declaration adds only its statement type to the exports line.
SummaryListsPlainDeclarations ==
  ValidCodeSummarized =>
    LET body == input.content.ast.body
        s    == out.content
        IsExport(n) == n.type \in {"ExportNamedDeclaration", "ExportDefaultDeclaration"}
        exports == SelectSeq(body, IsExport)
    IN /\ ListAfter(s, "- **Imports:** ", 1) = Declared(body, "ImportDeclaration", FALSE)
       /\ ListAfter(s, "- **Classes:** ", 1) = Declared(body, "ClassDeclaration", FALSE)
       /\ ListAfter(s, "- **Functions:** ", 1) = Declared(body, "FunctionDeclaration", FALSE)
       /\ ListAfter(s, "- **Exports:** ", 1) = [i \in 1..Len(exports) |-> exports[i].type]

\* summarizeFile has returned for a file of the given extension.
SummarizedAs(ext) ==
  /\ spc = "done" /\ input.kind = "file"
  /\ EndsWith(input.filename, ext)

\* C11: for every .py and every .java file summarizeFile returns the
\* placeholder synopsis 'Summary: Not available for this file type.', never
\* an empty synopsis.
C11_Original ==
  (SummarizedAs(extPy) \/ SummarizedAs(extJava)) =>
    /\ out.content = <<"- **Summary:** Not available for this file type.\n">>
    /\ out.content # <<>>

\* What summarizeFile does return for these files: the placeholder for a
\* .java file, the empty string for a .py file, whatever the content.
JavaPlaceholderPythonEmpty ==
  /\ SummarizedAs(extJava) =>
       out.content = <<"- **Summary:** Not available for this file type.\n">>
  /\ SummarizedAs(extPy) => out.content = <<>>

\* The line breaks of a text, and the text before its n-th line break (the
\* whole text when it has fewer): its first n lines, as they stand.
BreaksOf(text) == {i \in 1..Len(text) : text[i] = "\n"}

FirstLines(text, n) ==
  IF Cardinality(BreaksOf(text)) < n THEN text
  ELSE LET nth == CHOOSE i \in BreaksOf(text) :
                    Cardinality({j \in BreaksOf(text) : j <= i}) = n
       IN SubSeq(text, 1, nth - 1)

\* C12: the synopsis of a .md file is its preview label followed by exactly
\* the file's first five lines, or all of its lines when it has fewer, no
\* line altered, dropped or reordered, closed by one line break.
C12_MarkdownFirstFiveLines ==
  SummarizedAs(extMd) =>
    out.content = <<"- **Content Preview:**\n">> \o FirstLines(input.content.text, 5) \o <<"\n">>

\* A .md file of more than five lines, empty lines among the first five, cut
\* short by the preview.
C12_Witness ==
  /\ SummarizedAs(extMd)
  /\ Cardinality(BreaksOf(input.content.text)) >= 5
  /\ \E i \in 1..4 : input.content.text[i] = "\n" /\ input.content.text[i + 1] = "\n"
  /\ \E i \in 1..Len(input.content.text) : input.content.text[i] = "a"
  /\ FirstLines(input.content.text, 5) # input.content.text
  /\ out.content = <<"- **Content Preview:**\n">> \o FirstLines(input.content.text, 5) \o <<"\n">>

(***************************************************************************)
(* createReadme: extraction and parse of the JSON answer                   *)
(***************************************************************************)

\* The answer is a sequence of characters.  Three units stand for more than
\* one character each: a key name, and the two-character escape \n of a JSON
\* string.
chLB    == "{"
chRB    == "}"
chQuote == "\""
chColon == ":"
chComma == ","
chSpace == " "
chLF    == "\n"        \* U+000A, a C0 control character
chNEL   == "U+0085"    \* NEXT LINE, a C1 control character
chEscN  == "\\n"       \* backslash, n
chA     == "a"
chP     == "p"

Keys == {"projectName", "briefDescription", "readmeContent"}

\* Bounds of the answers: characters of a string value, characters of the
\* prose before and after the object.
MaxVal == 2
MaxProse == 1

ValueChars == {chA, chSpace, chRB, chLF, chNEL}
ProseChars == {chP, chLB, chRB, chLF}

\* Position of the first c in s at or after i, 0 when there is none.
RECURSIVE IndexFrom(_, _, _)
IndexFrom(s, c, i) ==
  IF i > Len(s) THEN 0 ELSE IF s[i] = c THEN i ELSE IndexFrom(s, c, i + 1)

\* Position of the last c in s at or before i, 0 when there is none.
RECURSIVE LastIndexFrom(_, _, _)
LastIndexFrom(s, c, i) ==
  IF i < 1 THEN 0 ELSE IF s[i] = c THEN i ELSE LastIndexFrom(s, c, i - 1)

NoMatch == [matched |-> FALSE, text |-> <<>>]
Match(text) == [matched |-> TRUE, text |-> text]

\* responseContent.match(/{[\s\S]*}/): from the first '{' to the last '}'.
MatchJsonLazy(s) ==
  LET i == IndexFrom(s, chLB, 1)
      j == IF i = 0 THEN 0 ELSE IndexFrom(s, chRB, i + 1)
  IN IF i = 0 \/ j = 0 THEN NoMatch ELSE Match(SubSeq(s, i, j))
MatchJson(s) ==
  LET i == IndexFrom(s, chLB, 1)
      j == LastIndexFrom(s, chRB, Len(s))
  IN IF i = 0 \/ j < i THEN NoMatch ELSE Match(SubSeq(s, i, j))

\* The characters of /[\u0000-\u001F\u007F-\u009F]/.
IsControl(c) == c \in {chLF, chNEL}

\* jsonString.replace(/[\u0000-\u001F\u007F-\u009F]/g, '')
StripControl(s) == LET Kept(c) == ~IsControl(c) IN SelectSeq(s, Kept)

Undefined == <<"undefined">>
EmptyObject == [k \in Keys |-> Undefined]
SyntaxError == [ok |-> FALSE, data |-> EmptyObject]

\* JSON.parse of an object whose values are strings, from position i on.
\* st is what the parser expects next; key and cur are the key and the
\* string being read.
RECURSIVE ParseFrom(_, _, _, _, _, _)
ParseFrom(s, i, st, key, cur, data) ==
  IF i > Len(s) THEN (IF st = "end" THEN [ok |-> TRUE, data |-> data] ELSE SyntaxError)
  ELSE LET c == s[i] IN
    CASE st \in {"inKey", "inValue"} ->
           IF c = chQuote
           THEN IF st = "inKey"
                THEN ParseFrom(s, i + 1, "colon", cur, <<>>, data)
                ELSE ParseFrom(s, i + 1, "commaOrEnd", <<>>, <<>>,
                               IF Len(key) = 1 /\ key[1] \in Keys
                               THEN [data EXCEPT ![key[1]] = cur] ELSE data)
           ELSE IF c \in {chLF}
           THEN SyntaxError      \* a raw control character below U+0020 in a string
           ELSE ParseFrom(s, i + 1, st, key, Append(cur, IF c = chEscN THEN chLF ELSE c), data)
      [] c \in {chSpace, chLF} -> ParseFrom(s, i + 1, st, key, cur, data)
      [] st = "start" /\ c = chLB -> ParseFrom(s, i + 1, "keyOrEnd", key, cur, data)
      [] st = "keyOrEnd" /\ c = chRB -> ParseFrom(s, i + 1, "end", key, cur, data)
      [] st \in {"keyOrEnd", "key"} /\ c = chQuote -> ParseFrom(s, i + 1, "inKey", key, <<>>, data)
      [] st = "colon" /\ c = chColon -> ParseFrom(s, i + 1, "value", key, cur, data)
      [] st = "value" /\ c = chQuote -> ParseFrom(s, i + 1, "inValue", key, <<>>, data)
      [] st = "commaOrEnd" /\ c = chComma -> ParseFrom(s, i + 1, "key", key, cur, data)
      [] st = "commaOrEnd" /\ c = chRB -> ParseFrom(s, i + 1, "end", key, cur, data)
      [] OTHER -> SyntaxError

JSONparse(s) == ParseFrom(s, 1, "start", <<>>, <<>>, EmptyObject)

\* The white space String.prototype.trim removes, among the characters here.
IsWhiteSpace(c) == c \in {chSpace, chLF}

RECURSIVE TrimStart(_)
TrimStart(s) == IF s # <<>> /\ IsWhiteSpace(Head(s)) THEN TrimStart(Tail(s)) ELSE s

RECURSIVE TrimEnd(_)
TrimEnd(s) ==
  IF s # <<>> /\ IsWhiteSpace(s[Len(s)]) THEN TrimEnd(SubSeq(s, 1, Len(s) - 1)) ELSE s

Trim(s) == TrimEnd(TrimStart(s))

ReadmeThrew == [threw |-> TRUE, projectName |-> <<>>, briefDescription |-> <<>>, readme |-> <<>>]

\* createReadme from the answer on: every throw inside the try, the
\* TypeError of undefined.trim() included, is rethrown by the catch.
CreateReadme(responseContent) ==
  LET jsonMatch == MatchJson(responseContent) IN
  IF ~jsonMatch.matched THEN ReadmeThrew
  ELSE LET parsed == JSONparse(StripControl(jsonMatch.text)) IN
       IF ~parsed.ok THEN ReadmeThrew
       ELSE IF \E k \in Keys : parsed.data[k] = Undefined THEN ReadmeThrew
       ELSE [threw |-> FALSE,
             projectName |-> Trim(parsed.data["projectName"]),
             briefDescription |-> Trim(parsed.data["briefDescription"]),
             readme |-> Trim(parsed.data["readmeContent"])]

\* A string as JSON text: a line feed is written as the escape \n.
JsonString(v) ==
  <<chQuote>> \o [i \in 1..Len(v) |-> IF v[i] = chLF THEN chEscN ELSE v[i]] \o <<chQuote>>

\* A well-formed object as the model writes it, on one line or on several.
JsonObject(o, pretty) ==
  LET nl == IF pretty THEN <<chLF, chSpace>> ELSE <<>>
      member(k) == <<chQuote, k, chQuote, chColon>> \o JsonString(o[k])
  IN <<chLB>> \o nl \o member("projectName") \o <<chComma>> \o nl
       \o member("briefDescription") \o <<chComma>> \o nl
       \o member("readmeContent") \o (IF pretty THEN <<chLF>> ELSE <<>>) \o <<chRB>>

\* The objects embedded: the three values differ, and all vary with v.
ObjectOf(v) ==
  [k \in Keys |-> CASE k = "projectName" -> v
                    [] k = "briefDescription" -> <<chA>> \o v
                    [] k = "readmeContent" -> v \o <<chA>>]

CreateReadme_Call_Json ==
  /\ jpc = "input"
  /\ jout' = CreateReadme(response)
  /\ jpc' = IF jout'.threw THEN "threw" ELSE "returned"
  /\ UNCHANGED <<response, embedded>>
  /\ UNCHANGED <<imgVars, mainVars, sumVars>>

JsonInit ==
  /\ jpc = "input" /\ jout = None
  /\ \/ \E v \in SeqsUpTo(ValueChars, MaxVal), pretty \in BOOLEAN :
          \E lead, trail \in SeqsUpTo(ProseChars, MaxProse) :
            /\ embedded = [kind |-> "object", data |-> ObjectOf(v),
                           lead |-> lead, trail |-> trail]
            /\ response = lead \o JsonObject(ObjectOf(v), pretty) \o trail
     \/ /\ embedded = None
        /\ response \in SeqsUpTo({chP, chRB, chLF, chQuote}, MaxProse + 1)
  /\ ImgIdle /\ MainIdle /\ SumIdle

JsonNext == CreateReadme_Call_Json

JsonSpec == JsonInit /\ [][JsonNext]_vars

Has(s, c) == \E i \in 1..Len(s) : s[i] = c

Without(s, c) == LET Other(x) == x # c IN SelectSeq(s, Other)

\* A value with its leading and trailing white space removed.
RECURSIVE Trimmed(_)
Trimmed(v) ==
  IF v = <<>> THEN v
  ELSE IF v[1] \in {" ", "\n"} THEN Trimmed(Tail(v))
  ELSE IF v[Len(v)] \in {" ", "\n"} THEN Trimmed(SubSeq(v, 1, Len(v) - 1))
  ELSE v

====
